---- MODULE Spec2Model ----
(***************************************************************************)
(* Model of the Spotify/Elasticsearch music explorer: the HTTP handlers of *)
(* backend/main.py, the SpotifySearcher methods they call and the result   *)
(* shapers of backend/service/model.py.  The search engine is external: an *)
(* engine call answers with any result the engine could give for the      *)
(* query, or fails.                                                        *)
(*                                                                         *)
(* One request is served at a time: Receive* picks the request, one action *)
(* per engine round trip advances pc, Reply hands the response back.       *)
(*                                                                         *)
(* The indexing script (backend/service/indexer.py) is a separate program; *)
(* SpecVector runs its create_audio_vector on bounded inputs.              *)
(***************************************************************************)
EXTENDS Integers, Sequences, FiniteSets, TLC

VARIABLES
    pc,         \* position of the handler serving the current request
    req,        \* the request: endpoint and parameters
    calls,      \* engine calls issued for the current request, in order
    key_words,  \* song_searcher: words left after stop-word removal
    word_ix,    \* song_searcher: index in key_words of the next fuzzy word
    source_doc, \* find_similar_by_vector: the document client.get returned
    resp,       \* the response handed to the caller
    track_data,   \* Indexer.create_audio_vector: the record it is given
    audio_vector, \* Indexer.create_audio_vector: the list it returned
    hit,          \* Track.from_elasticsearch_hit: the engine hit it is given
    track,        \* Track.from_elasticsearch_hit: the Track it returned
    spc,          \* setup_data: position of the script
    max_retries,  \* wait_for_elasticsearch: its parameter
    attempt,      \* wait_for_elasticsearch: connection attempts made
    log,          \* setup_data: what the script did, in order
    index_state,  \* the engine: "absent", "mapped" (created with the explicit
                  \* mapping) or "dynamic" (any other index of that name)
    df,           \* Indexer.df: the loaded rows
    batch_size,   \* index_data: its parameter
    row_ix,       \* index_data: index in df of the next row
    bulk_data,    \* index_data: actions waiting for the next bulk call
    bulks,        \* helpers.bulk calls made, in order
    setup_result, \* what setup_data returned
    threads,      \* concurrent filter requests: each thread's locals
    heap          \* concurrent filter requests: the dict objects, by address

\* the request being served by the API server
api_vars == <<pc, req, calls, key_words, word_ix, source_doc, resp>>

\* the state of the indexing script, which the API server never touches
indexer_vars == <<track_data, audio_vector>>

\* a hit conversion run on its own
shaper_vars == <<hit, track>>

\* the setup script (setup_data.py) and the index it fills
setup_vars == <<spc, max_retries, attempt, log, index_state, df, batch_size,
                row_ix, bulk_data, bulks, setup_result>>

\* requests served concurrently by the one SpotifySearcher of main.py
concurrent_vars == <<threads, heap>>

\* everything a request handler leaves alone
other_vars == <<indexer_vars, shaper_vars, setup_vars, concurrent_vars>>

vars == <<pc, req, calls, key_words, word_ix, source_doc, resp,
          track_data, audio_vector, hit, track,
          spc, max_retries, attempt, log, index_state, df, batch_size,
          row_ix, bulk_data, bulks, setup_result, threads, heap>>

(***************************************************************************)
(* Bounds of the model.                                                    *)
(***************************************************************************)
MaxWords == 3      \* tokens in a song title
MaxTotal == 2      \* largest total-match count the engine reports
MaxSimSize == 2    \* largest size asked of a similarity lookup
MaxVaried == 2     \* genres of a comparison request chosen freely
MaxListLen == 11   \* longest genre list of a comparison request
MaxGenreTracks == 2 \* most tracks the catalogue holds of one genre
MaxTopSize == 2    \* largest size asked of a top-artists request
MaxMinTracks == 3  \* largest min_tracks asked of a top-artists request
MaxDocCount == 3   \* most tracks of one artist in a genre
MaxBuckets == 2    \* most artist buckets the engine returns
MaxRetries == 3    \* largest max_retries of wait_for_elasticsearch
MaxRows == 3       \* most rows of the loaded data
MaxBatchSize == 2  \* largest batch_size of index_data

(***************************************************************************)
(* Small helpers.                                                          *)
(***************************************************************************)
Min(a, b) == IF a <= b THEN a ELSE b

SeqsUpTo(S, n) == UNION {[1..k -> S] : k \in 0..n}

\* s[:n] of Python
Take_m(s, n) == s
Take(s, n) == SubSeq(s, 1, Min(Len(s), n))

(***************************************************************************)
(* The indexed catalogue.  Indexer.index_data stores every row under       *)
(* _id = track_id, so a hit's _source.track_id, when the column exists,    *)
(* equals its _id.                                                         *)
(***************************************************************************)
TrackIds == {"t1", "t2"}

\* An optional value: {} when absent (None, a missing key), {v} when it is v
None == {}
Some(v) == {v}
The(opt) == CHOOSE v \in opt : TRUE

\* dict.get(key, default) on an optional entry
Get(opt, default) == IF opt = None THEN default ELSE The(opt)

\* The documents index_data wrote: "_id": doc.get("track_id"), "_source": doc.
\* track_id is the _source's entry: the _id, or missing when the data has no
\* such column and the engine assigned the _id.
Hits ==
    UNION {{[_id |-> t, track_id |-> tid] : tid \in {None, Some(t)}} :
              t \in TrackIds}

\* source.get(name): the entry of the hit's _source, None when the key is
\* absent (a hit of the model that does not carry the field has no such key)
Field(h, name) == IF name \in DOMAIN h THEN h[name] ELSE None

\* source.get('popularity', 0)
DefaultPopularity == 0

\* source.get(name, ''), with '' as the default of every text field
TextField_m(h, name) == Get(Field(h, name), "unknown")
TextField(h, name) == Get(Field(h, name), "")

\* Track.from_elasticsearch_hit
from_elasticsearch_hit(h, similarity) ==
    [track_id    |-> Get(h.track_id, h._id),
     track_name  |-> TextField(h, "track_name"),
     album_name  |-> TextField(h, "album_name"),
     popularity  |-> Get(Field(h, "popularity"), DefaultPopularity),
     track_genre |-> TextField(h, "track_genre"),
     artists     |-> TextField(h, "artists"),
     similarity  |-> similarity]

\* Engine-side result cap of text searches
DefaultSearchSize == 10
PartialSearchSize == 20
ResultCap == 10

\* SearchResult.from_search_hits(...).to_dict()
from_search_hits(hits, total, filters) ==
    [total_tracks |-> total,
     results      |-> [i \in DOMAIN hits |-> from_elasticsearch_hit(hits[i], None)],
     filters      |-> filters]

(***************************************************************************)
(* Engine answers to a text search: a total-match count and at most `size` *)
(* hits.  EngineFault is a call that raised.                               *)
(***************************************************************************)
EngineFault == [fault |-> TRUE, total |-> 0, hits |-> <<>>]

\* Further documents of the index, returned by the answers to queries that
\* match more documents than any result cap of the program
BulkIds == <<"b1", "b2", "b3", "b4", "b5", "b6", "b7", "b8", "b9", "b10",
             "b11", "b12">>

BulkHits(n) == [i \in 1..n |-> [_id |-> BulkIds[i], track_id |-> Some(BulkIds[i])]]

LargeAnswers(size) ==
    {[fault |-> FALSE, total |-> Len(BulkIds),
      hits |-> BulkHits(Min(Len(BulkIds), size))]}

SearchAnswers(size) ==
    UNION {{[fault |-> FALSE, total |-> t, hits |-> h] :
                h \in [1..Min(t, size) -> Hits]} : t \in 0..MaxTotal}
    \cup LargeAnswers(size)

(***************************************************************************)
(* Song titles are sequences of whitespace-separated tokens.               *)
(***************************************************************************)
Tokens == {"The", "a", "Love", "song"}

\* str.lower() on a token
Lower(w) == CASE w = "The" -> "the" [] w = "Love" -> "love" [] OTHER -> w

stop_words == {"the", "a", "an", "and", "or", "but", "in", "on", "at",
               "is", "are", "was", "were", "this", "that"}

\* song_title.lower().split()
LowerSplit(title) == [i \in DOMAIN title |-> Lower(title[i])]

\* [word for word in words if word not in stop_words]
RECURSIVE NotStopWords(_)
NotStopWords(words) ==
    IF words = <<>> THEN <<>>
    ELSE IF Head(words) \notin stop_words
    THEN <<Head(words)>> \o NotStopWords(Tail(words))
    ELSE NotStopWords(Tail(words))

KeyWords(title) == NotStopWords(LowerSplit(title))

(***************************************************************************)
(* Responses.  status is the HTTP status code; 0 while none was sent.      *)
(***************************************************************************)
NoBody == [total_tracks |-> 0, results |-> <<>>, filters |-> [search_type |-> "none"]]
NoResp == [status |-> 0, body |-> NoBody]

Ok(body) == [status |-> 200, body |-> body]

\* main.py: except Exception as e: raise HTTPException(status_code=500, ...)
ExceptHandlerStatus == 500
InternalError_m == [status |-> 200, body |-> NoBody]
InternalError == [status |-> ExceptHandlerStatus, body |-> NoBody]

NoDoc == [found |-> FALSE, _id |-> "none"]

\* one entry of the log of engine calls: the query and the engine's answer
Call(kind, query, ans) == [kind |-> kind, query |-> query, total |-> ans.total,
                           hits |-> ans.hits, fault |-> ans.fault]

\* the API server before its first request
ApiInit ==
    /\ pc = "idle"
    /\ req = [op |-> "none"]
    /\ calls = <<>>
    /\ key_words = <<>>
    /\ word_ix = 0
    /\ source_doc = NoDoc
    /\ resp = NoResp

\* no record is being indexed while the API serves requests
NoTrackData == [feature_name \in {} |-> 0]

\* create_audio_vector is not running
VectorIdle ==
    /\ track_data = NoTrackData
    /\ audio_vector = <<>>

NoHit == [_id |-> "none"]
NoTrack == [track_id |-> "none"]

\* no hit conversion is running on its own
ShaperIdle ==
    /\ hit = NoHit
    /\ track = NoTrack

\* the setup script is not running
SetupIdle ==
    /\ spc = "idle"
    /\ max_retries = 0
    /\ attempt = 0
    /\ log = <<>>
    /\ index_state = "mapped"
    /\ df = <<>>
    /\ batch_size = 0
    /\ row_ix = 0
    /\ bulk_data = <<>>
    /\ bulks = <<>>
    /\ setup_result = "none"

\* the worker threads
Threads == {1, 2}

\* addresses of dict objects: one applied_filters per request in flight
Addresses == 1..2
NoRef == 0

\* a handler thread between requests
IdleThread ==
    [pc |-> "idle", req |-> [op |-> "none"], calls |-> <<>>, resp |-> NoResp,
     applied_filters |-> NoRef]

\* applied_filters = {"track_genre": None, "album": None}
NewFilters == [track_genre |-> None, album |-> None]

\* no request is in flight on any thread
ConcurrentIdle ==
    /\ threads = [p \in Threads |-> IdleThread]
    /\ heap = [a \in Addresses |-> NewFilters]

Init ==
    /\ ApiInit
    /\ VectorIdle
    /\ ShaperIdle
    /\ SetupIdle
    /\ ConcurrentIdle

(***************************************************************************)
(* GET /search/song/{song}: SpotifySearcher.song_searcher                  *)
(***************************************************************************)
ReceiveSong ==
    /\ pc = "idle"
    /\ \E title \in SeqsUpTo(Tokens, MaxWords) :
          req' = [op |-> "song", song |-> title]
    /\ pc' = "phrase"
    /\ calls' = <<>>
    /\ resp' = NoResp
    /\ UNCHANGED <<key_words, word_ix, source_doc>>
    /\ UNCHANGED other_vars

\* the empty SearchResult at the end of song_searcher
EmptyResult_m(song_title) ==
    [total_tracks |-> 0,
     results      |-> <<>>,
     filters      |-> [search_type |-> "smart", query |-> song_title]]
EmptyResult(song_title) ==
    [total_tracks |-> 0,
     results      |-> <<>>,
     filters      |-> [search_type |-> "smart", query |-> song_title,
                       status |-> "no_matches"]]

\* if result_dict["total_tracks"] > 0: return result_dict   (after phrase)
PhraseFound_m(result_dict) == result_dict.total_tracks > 1
PhraseFound(result_dict) == result_dict.total_tracks > 0

\* if result_dict["total_tracks"] > 0: return result_dict   (after partial)
PartialFound_m(result_dict) == result_dict.total_tracks > 1
PartialFound(result_dict) == result_dict.total_tracks > 0

\* if result_dict["total_tracks"] > 0: return result_dict   (in the fuzzy loop)
FuzzyFound_m(result_dict) == FALSE
FuzzyFound(result_dict) == result_dict.total_tracks > 0

\* for word in key_words: the word of iteration ix
FuzzyWord_m(kw, ix) == kw[Len(kw) + 1 - ix]
FuzzyWord(kw, ix) == kw[ix]

\* search_song_phrase with the raw title
SongPhrase ==
    /\ pc = "phrase"
    /\ \E ans \in SearchAnswers(DefaultSearchSize) \cup {EngineFault} :
         LET result_dict == from_search_hits(ans.hits, ans.total,
                               [search_type |-> "phrase", query |-> req.song])
             kw == KeyWords(req.song)
         IN  /\ calls' = Append(calls, Call("phrase", req.song, ans))
             /\ IF ans.fault
                  THEN /\ resp' = InternalError
                       /\ pc' = "done"
                       /\ UNCHANGED key_words
                  ELSE IF PhraseFound(result_dict)
                  THEN /\ resp' = Ok(result_dict)
                       /\ pc' = "done"
                       /\ UNCHANGED key_words
                  ELSE IF kw # <<>>
                  THEN /\ key_words' = kw
                       /\ pc' = "partial"
                       /\ UNCHANGED resp
                  ELSE /\ key_words' = kw
                       /\ resp' = Ok(EmptyResult(req.song))
                       /\ pc' = "done"
    /\ UNCHANGED <<req, word_ix, source_doc>>
    /\ UNCHANGED other_vars

\* search_song_partial with the rejoined key words
SongPartial ==
    /\ pc = "partial"
    /\ \E ans \in SearchAnswers(PartialSearchSize) \cup {EngineFault} :
         LET result_dict == from_search_hits(Take(ans.hits, ResultCap), ans.total,
                               [search_type |-> "partial", query |-> key_words])
         IN  /\ calls' = Append(calls, Call("partial", key_words, ans))
             /\ IF ans.fault
                  THEN /\ resp' = InternalError
                       /\ pc' = "done"
                       /\ UNCHANGED word_ix
                  ELSE IF PartialFound(result_dict)
                  THEN /\ resp' = Ok(result_dict)
                       /\ pc' = "done"
                       /\ UNCHANGED word_ix
                  ELSE /\ word_ix' = 1
                       /\ pc' = "fuzzy"
                       /\ UNCHANGED resp
    /\ UNCHANGED <<req, key_words, source_doc>>
    /\ UNCHANGED other_vars

\* one iteration of: for word in key_words: search_song_fuzzy(word)
SongFuzzy ==
    /\ pc = "fuzzy"
    /\ \E ans \in SearchAnswers(DefaultSearchSize) \cup {EngineFault} :
         LET word == FuzzyWord(key_words, word_ix)
             result_dict == from_search_hits(ans.hits, ans.total,
                               [search_type |-> "fuzzy", query |-> <<word>>])
         IN  /\ calls' = Append(calls, Call("fuzzy", <<word>>, ans))
             /\ IF ans.fault
                  THEN /\ resp' = InternalError
                       /\ pc' = "done"
                       /\ UNCHANGED word_ix
                  ELSE IF FuzzyFound(result_dict)
                  THEN /\ resp' = Ok(result_dict)
                       /\ pc' = "done"
                       /\ UNCHANGED word_ix
                  ELSE IF word_ix < Len(key_words)
                  THEN /\ word_ix' = word_ix + 1
                       /\ pc' = "fuzzy"
                       /\ UNCHANGED resp
                  ELSE /\ resp' = Ok(EmptyResult(req.song))
                       /\ pc' = "done"
                       /\ UNCHANGED word_ix
    /\ UNCHANGED <<req, key_words, source_doc>>
    /\ UNCHANGED other_vars

(***************************************************************************)
(* main.py wraps every handler body in                                     *)
(*     try: ... except Exception as e: raise HTTPException(500, ...)       *)
(* An HTTPException raised inside the try block is an Exception too, so    *)
(* the except clause catches it and the caller gets what the clause raises.*)
(***************************************************************************)
RaisedInTry(status_code) == InternalError

(***************************************************************************)
(* GET /similar/{track_id}: find_similar / find_similar_by_vector          *)
(***************************************************************************)
AbsentId == "t0"

\* cosine kNN scores, in hundredths: the engine reports 1 + cosine
Scores == {100, 150, 200}

KnnHits ==
    UNION {{[_id |-> t, track_id |-> tid, _score |-> sc] :
               tid \in {None, Some(t)}, sc \in Scores} : t \in TrackIds}

Sorted(hits) == \A i \in 1..(Len(hits) - 1) : hits[i]._score >= hits[i + 1]._score

\* the engine's answers to a kNN search asking for k neighbours
KnnAnswers(k) ==
    {[fault |-> FALSE, total |-> Len(h), hits |-> h] :
        h \in {x \in SeqsUpTo(KnnHits, Min(k, MaxSimSize + 1)) : Sorted(x)}}

\* client.get(index, id): the stored document, or NotFoundError
GetAnswers(track_id) ==
    {IF track_id \in TrackIds
       THEN [fault |-> FALSE, found |-> TRUE, total |-> 1, hits |-> <<>>]
       ELSE [fault |-> FALSE, found |-> FALSE, total |-> 0, hits |-> <<>>],
     [fault |-> TRUE, found |-> FALSE, total |-> 0, hits |-> <<>>]}

\* if hit['_id'] == source_track_id: continue
IsSource_m(h, source_track_id) == FALSE
IsSource(h, source_track_id) == h._id = source_track_id

\* similarity = hit['_score'] - 1.0   (hundredths)
Similarity_m(h) == h._score
Similarity(h) == h._score - 100

\* if count >= size: break
Full_m(count, size) == count > size
Full(count, size) == count >= size

\* the loop of SearchResult.from_similarity_search
RECURSIVE SimilarTracks(_, _, _, _)
SimilarTracks(hits, source_track_id, size, tracks) ==
    IF hits = <<>> THEN tracks
    ELSE IF IsSource(Head(hits), source_track_id)
    THEN SimilarTracks(Tail(hits), source_track_id, size, tracks)
    ELSE IF Full(Len(tracks), size) THEN tracks
    ELSE SimilarTracks(Tail(hits), source_track_id, size,
            Append(tracks, from_elasticsearch_hit(Head(hits),
                                                  Some(Similarity(Head(hits))))))

\* SearchResult.from_similarity_search(...).to_dict()
from_similarity_search(hits, source_track_id, size) ==
    LET tracks == SimilarTracks(hits, source_track_id, size, <<>>)
    IN  [total_tracks |-> Len(tracks),
         results      |-> tracks,
         filters      |-> [similarity_search |-> TRUE]]

\* if result is None: raise HTTPException(status_code=404, ...)
NotFoundStatus == 404

ReceiveSimilar ==
    /\ pc = "idle"
    /\ \E t \in TrackIds \cup {AbsentId}, n \in 1..MaxSimSize :
          req' = [op |-> "similar", track_id |-> t, size |-> n]
    /\ pc' = "get"
    /\ calls' = <<>>
    /\ resp' = NoResp
    /\ UNCHANGED <<key_words, word_ix, source_doc>>
    /\ UNCHANGED other_vars

\* source_result = self.client.get(...); any exception makes the method
\* return None, which the handler turns into its 404
SimilarGet ==
    /\ pc = "get"
    /\ \E ans \in GetAnswers(req.track_id) :
         /\ calls' = Append(calls, Call("get", <<req.track_id>>, ans))
         /\ IF ans.fault \/ ~ans.found
              THEN /\ resp' = RaisedInTry(NotFoundStatus)
                   /\ pc' = "done"
                   /\ UNCHANGED source_doc
              ELSE /\ source_doc' = [found |-> TRUE, _id |-> req.track_id]
                   /\ pc' = "knn"
                   /\ UNCHANGED resp
    /\ UNCHANGED <<req, key_words, word_ix>>
    /\ UNCHANGED other_vars

\* the kNN search with k = size + 1 and the shaping of its hits
SimilarKnn ==
    /\ pc = "knn"
    /\ \E ans \in KnnAnswers(req.size + 1) \cup {EngineFault} :
         /\ calls' = Append(calls, Call("knn", <<source_doc._id>>, ans))
         /\ IF ans.fault
              THEN resp' = RaisedInTry(NotFoundStatus)
              ELSE resp' = Ok(from_similarity_search(ans.hits, req.track_id, req.size))
         /\ pc' = "done"
    /\ UNCHANGED <<req, key_words, word_ix, source_doc>>
    /\ UNCHANGED other_vars

(***************************************************************************)
(* GET /analytics/compare: compare_genres                                  *)
(* A genre name is a sequence of segments; "-" and "_" are segments of     *)
(* their own, so that str.replace('-', '_') is a map over the segments.    *)
(***************************************************************************)
GenreNames == {<<"pop">>, <<"hip", "-", "hop">>, <<"hip", "_", "hop">>}

Filler == <<"pop">>

\* a list of genres: a freely chosen prefix, padded with Filler to length n
Pad(prefix, n) == [i \in 1..n |-> IF i <= Len(prefix) THEN prefix[i] ELSE Filler]

GenreLists ==
    {Pad(p, n) : p \in SeqsUpTo(GenreNames, MaxVaried), n \in 0..MaxListLen}

\* genre.replace('-', '_')
Replace(genre) == [i \in DOMAIN genre |-> IF genre[i] = "-" THEN "_" ELSE genre[i]]

\* f"genre_{genre.replace('-', '_')}"
AggKey(genre) == <<"genre_">> \o Replace(genre)

\* the "aggs" dict compare_genres builds: one entry per key, holding the term
\* filter of the last genre assigned under that key
BuildAggs(genre_list) ==
    [k \in {AggKey(genre_list[i]) : i \in DOMAIN genre_list} |->
        LET last == CHOOSE i \in DOMAIN genre_list :
                       /\ AggKey(genre_list[i]) = k
                       /\ \A j \in DOMAIN genre_list :
                             AggKey(genre_list[j]) = k => j <= i
        IN  genre_list[last]]

\* what the catalogue holds of one genre: track count and average popularity
\* (hundredths; no average over zero tracks)
GenreStatValues ==
    {[track_count |-> n, avg_popularity |-> IF n = 0 THEN None ELSE Some(1000 * n)] :
        n \in 0..MaxGenreTracks}

Catalogues == [GenreNames -> GenreStatValues]

\* the engine evaluates every sub-aggregation of the query on its filter
Aggregate(aggs, catalogue) == [k \in DOMAIN aggs |-> catalogue[aggs[k]]]

\* value or 0
OrZero(opt) == IF opt = None THEN 0 ELSE The(opt)

\* GenreStats.from_aggregation
from_aggregation_m(genre, agg) ==
    [genre          |-> Replace(genre),
     track_count    |-> agg.track_count,
     avg_popularity |-> OrZero(agg.avg_popularity)]
from_aggregation(genre, agg) ==
    [genre          |-> genre,
     track_count    |-> agg.track_count,
     avg_popularity |-> OrZero(agg.avg_popularity)]

\* GenreComparison.from_elasticsearch_result(...).to_dict()
RECURSIVE GenreStatsOf(_, _)
GenreStatsOf(genre_list, aggregations) ==
    IF genre_list = <<>> THEN <<>>
    ELSE LET genre == Head(genre_list)
             rest == GenreStatsOf(Tail(genre_list), aggregations)
         IN  IF AggKey(genre) \in DOMAIN aggregations
               THEN <<from_aggregation(genre, aggregations[AggKey(genre)])>> \o rest
               ELSE rest

\* if len(genres) < 2: raise HTTPException(status_code=400, ...)
MinGenres == 2
TooFew(genres) == Len(genres) < MinGenres

\* if len(genres) > 10: raise HTTPException(status_code=400, ...)
MaxGenres == 10
TooMany_m(genres) == Len(genres) > MaxGenres + 1
TooMany(genres) == Len(genres) > MaxGenres

BadRequestStatus == 400

ReceiveCompare ==
    /\ pc = "idle"
    /\ \E genres \in GenreLists : req' = [op |-> "compare", genres |-> genres]
    /\ pc' = "validate"
    /\ calls' = <<>>
    /\ resp' = NoResp
    /\ UNCHANGED <<key_words, word_ix, source_doc>>
    /\ UNCHANGED other_vars

\* the two length checks of the handler
CompareValidate ==
    /\ pc = "validate"
    /\ IF TooFew(req.genres) \/ TooMany(req.genres)
         THEN /\ resp' = RaisedInTry(BadRequestStatus)
              /\ pc' = "done"
         ELSE /\ pc' = "agg"
              /\ UNCHANGED resp
    /\ UNCHANGED <<req, calls, key_words, word_ix, source_doc>>
    /\ UNCHANGED other_vars

\* SpotifySearcher.compare_genres: one aggregation search, then the shaping
CompareQuery ==
    /\ pc = "agg"
    /\ LET aggs == BuildAggs(req.genres)
       IN  \/ \E catalogue \in Catalogues :
                /\ calls' = Append(calls,
                       [kind |-> "aggs", query |-> aggs, total |-> 0, hits |-> <<>>,
                        fault |-> FALSE, catalogue |-> catalogue])
                /\ resp' = Ok([genres |->
                       GenreStatsOf(req.genres, Aggregate(aggs, catalogue))])
           \/ /\ calls' = Append(calls,
                       [kind |-> "aggs", query |-> aggs, total |-> 0, hits |-> <<>>,
                        fault |-> TRUE])
              /\ resp' = InternalError
    /\ pc' = "done"
    /\ UNCHANGED <<req, key_words, word_ix, source_doc>>
    /\ UNCHANGED other_vars

(***************************************************************************)
(* GET /analytics/top-artists/{genre}: top_artists_per_genre               *)
(***************************************************************************)
Artists == {"a1", "a2", "a3"}

\* average popularity of an artist's tracks, in hundredths
Popularities == {4515, 4525, 6010}

\* "script": "params.track_count >= 2"
ScriptMinTracks == 2
BucketSelector(bucket) == bucket.doc_count >= ScriptMinTracks

Buckets == [key : Artists, doc_count : 1..MaxDocCount, avg_popularity : Popularities]

\* the terms aggregation: one bucket per artist, those the bucket_selector
\* keeps, ordered by descending average popularity
TermsAnswers ==
    {b \in SeqsUpTo(Buckets, MaxBuckets) :
        /\ \A i \in DOMAIN b : BucketSelector(b[i])
        /\ \A i, j \in DOMAIN b : i < j =>
              /\ b[i].key # b[j].key
              /\ b[i].avg_popularity >= b[j].avg_popularity}

\* round(x, 1) on hundredths, giving tenths (ties to even)
Round1(h) ==
    LET q == h \div 10
        r == h % 10
    IN  IF r < 5 THEN q
        ELSE IF r > 5 THEN q + 1
        ELSE IF q % 2 = 0 THEN q ELSE q + 1

\* Artist.from_aggregation_bucket
from_aggregation_bucket(rank, bucket) ==
    [rank           |-> rank,
     artist         |-> bucket.key,
     track_count    |-> bucket.doc_count,
     avg_popularity |-> Round1(bucket.avg_popularity)]

\* TopArtists.from_elasticsearch_result(...).to_dict()
TopArtistsOf_m(genre, buckets, size) ==
    [genre       |-> genre,
     top_artists |-> [i \in DOMAIN Take(buckets, size) |->
                         from_aggregation_bucket(i - 1, buckets[i])]]
TopArtistsOf(genre, buckets, size) ==
    [genre       |-> genre,
     top_artists |-> [i \in DOMAIN Take(buckets, size) |->
                         from_aggregation_bucket(i, buckets[i])]]

ReceiveTop ==
    /\ pc = "idle"
    /\ \E n \in 1..MaxTopSize, m \in 1..MaxMinTracks :
          req' = [op |-> "top", genre |-> <<"pop">>, size |-> n, min_tracks |-> m]
    /\ pc' = "terms"
    /\ calls' = <<>>
    /\ resp' = NoResp
    /\ UNCHANGED <<key_words, word_ix, source_doc>>
    /\ UNCHANGED other_vars

\* get_top_artists: searcher.top_artists_per_genre(genre, size)
TopQuery ==
    /\ pc = "terms"
    /\ \/ \E buckets \in TermsAnswers :
            /\ calls' = Append(calls,
                   [kind |-> "terms", query |-> req.genre, total |-> 0,
                    hits |-> buckets, fault |-> FALSE])
            /\ resp' = Ok(TopArtistsOf(req.genre, buckets, req.size))
       \/ /\ calls' = Append(calls,
                   [kind |-> "terms", query |-> req.genre, total |-> 0,
                    hits |-> <<>>, fault |-> TRUE])
          /\ resp' = InternalError
    /\ pc' = "done"
    /\ UNCHANGED <<req, key_words, word_ix, source_doc>>
    /\ UNCHANGED other_vars

(***************************************************************************)
(* The single-query endpoints: /albums, /tracks, /search/phrase and        *)
(* /search/fuzzy.  FastAPI has validated size (ge=1) before the handler.   *)
(***************************************************************************)
RequestSizes == {1, 11}

ArtistNames == {"ar1"}

Titles == {<<"Love">>, <<"The", "song">>}

AlbumNames == {"al1", "al2"}

AlbumBuckets == [key : AlbumNames, doc_count : 1..MaxTotal]

\* the terms aggregation on album_name.keyword: at most `size` buckets
AlbumAnswers(size) ==
    {b \in SeqsUpTo(AlbumBuckets, Min(size, Cardinality(AlbumNames))) :
        \A i, j \in DOMAIN b : i < j => b[i].key # b[j].key}

\* ArtistAlbums.from_elasticsearch_result(...).to_dict()
ArtistAlbumsOf(artist_name, buckets) ==
    [artist       |-> artist_name,
     total_albums |-> Len(buckets),
     albums       |-> [i \in DOMAIN buckets |->
                         [artist    |-> artist_name,
                          name      |-> buckets[i].key,
                          nb_tracks |-> buckets[i].doc_count]]]

ReceiveAlbums ==
    /\ pc = "idle"
    /\ \E a \in ArtistNames, n \in RequestSizes :
          req' = [op |-> "albums", artist |-> a, size |-> n]
    /\ pc' = "albums"
    /\ calls' = <<>>
    /\ resp' = NoResp
    /\ UNCHANGED <<key_words, word_ix, source_doc>>
    /\ UNCHANGED other_vars

\* SpotifySearcher.search_artist_albums
AlbumsQuery ==
    /\ pc = "albums"
    /\ \/ \E buckets \in AlbumAnswers(req.size) :
            /\ calls' = Append(calls,
                   [kind |-> "albums", query |-> req.artist, total |-> 0,
                    hits |-> buckets, fault |-> FALSE])
            /\ resp' = Ok(ArtistAlbumsOf(req.artist, buckets))
       \/ /\ calls' = Append(calls, Call("albums", req.artist, EngineFault))
          /\ resp' = InternalError
    /\ pc' = "done"
    /\ UNCHANGED <<req, key_words, word_ix, source_doc>>
    /\ UNCHANGED other_vars

\* SearchResult.to_dict() of an artist search: "tracks" replaces "results"
ArtistTracksOf(artist_name, ans) ==
    LET r == from_search_hits(ans.hits, ans.total, [artist |-> artist_name])
    IN  [total_tracks |-> r.total_tracks,
         filters      |-> r.filters,
         artist       |-> artist_name,
         tracks       |-> r.results]

ReceiveTracks ==
    /\ pc = "idle"
    /\ \E a \in ArtistNames, n \in RequestSizes :
          req' = [op |-> "tracks", artist |-> a, size |-> n]
    /\ pc' = "tracks"
    /\ calls' = <<>>
    /\ resp' = NoResp
    /\ UNCHANGED <<key_words, word_ix, source_doc>>
    /\ UNCHANGED other_vars

\* SpotifySearcher.search_tracks_by_artist
TracksQuery ==
    /\ pc = "tracks"
    /\ \E ans \in SearchAnswers(req.size) \cup {EngineFault} :
         /\ calls' = Append(calls, Call("match_artist", req.artist, ans))
         /\ resp' = IF ans.fault THEN InternalError
                    ELSE Ok(ArtistTracksOf(req.artist, ans))
    /\ pc' = "done"
    /\ UNCHANGED <<req, key_words, word_ix, source_doc>>
    /\ UNCHANGED other_vars

ReceivePhrase ==
    /\ pc = "idle"
    /\ \E t \in Titles, n \in RequestSizes :
          req' = [op |-> "phrase", song |-> t, size |-> n]
    /\ pc' = "phrase_only"
    /\ calls' = <<>>
    /\ resp' = NoResp
    /\ UNCHANGED <<key_words, word_ix, source_doc>>
    /\ UNCHANGED other_vars

\* SpotifySearcher.search_song_phrase called by its own endpoint
PhraseQuery ==
    /\ pc = "phrase_only"
    /\ \E ans \in SearchAnswers(req.size) \cup {EngineFault} :
         /\ calls' = Append(calls, Call("phrase", req.song, ans))
         /\ resp' = IF ans.fault THEN InternalError
                    ELSE Ok(from_search_hits(ans.hits, ans.total,
                               [search_type |-> "phrase", query |-> req.song]))
    /\ pc' = "done"
    /\ UNCHANGED <<req, key_words, word_ix, source_doc>>
    /\ UNCHANGED other_vars

ReceiveFuzzy ==
    /\ pc = "idle"
    /\ \E t \in Titles, n \in RequestSizes :
          req' = [op |-> "fuzzy", song |-> t, size |-> n]
    /\ pc' = "fuzzy_only"
    /\ calls' = <<>>
    /\ resp' = NoResp
    /\ UNCHANGED <<key_words, word_ix, source_doc>>
    /\ UNCHANGED other_vars

\* SpotifySearcher.search_song_fuzzy called by its own endpoint
FuzzyQuery ==
    /\ pc = "fuzzy_only"
    /\ \E ans \in SearchAnswers(req.size) \cup {EngineFault} :
         /\ calls' = Append(calls, Call("fuzzy", req.song, ans))
         /\ resp' = IF ans.fault THEN InternalError
                    ELSE Ok(from_search_hits(ans.hits, ans.total,
                               [search_type |-> "fuzzy", query |-> req.song]))
    /\ pc' = "done"
    /\ UNCHANGED <<req, key_words, word_ix, source_doc>>
    /\ UNCHANGED other_vars

(***************************************************************************)
(* GET /filter: SpotifySearcher.filter and fuzzy_album_search              *)
(***************************************************************************)
\* Optional[str] query parameters: absent, empty, or a name
GenreParams == {None, Some(""), Some("jazz")}
AlbumParams == {None, Some(""), Some("Kind of Blue")}

\* `if genre:` / `if album:`
Truthy(opt) == opt # None /\ The(opt) # ""

\* {"term": {field: value}}
Term(field, value) == [term |-> field, value |-> value]

\* the genre filter clause, when a genre was given
GenreClause(genre) ==
    IF Truthy(genre) THEN <<Term("track_genre", The(genre))>> ELSE <<>>

\* the album filter clause, when an album was given
AlbumClause(album) ==
    IF Truthy(album) THEN <<Term("album_name.keyword", The(album))>> ELSE <<>>

\* the query of filter
ExactQuery(genre, album, size) ==
    [size |-> size, filter |-> GenreClause(genre) \o AlbumClause(album)]

\* applied_filters of filter
AppliedFilters(genre, album) ==
    [track_genre |-> IF Truthy(genre) THEN genre ELSE None,
     album       |-> IF Truthy(album) THEN album ELSE None]

\* fuzzy_query of fuzzy_album_search
FuzzyAlbumQuery_m(genre, album, size) ==
    [size   |-> size,
     filter |-> <<>>,
     must   |-> <<[match |-> "album_name", query |-> The(album),
                   fuzziness |-> "AUTO", operator |-> "and"]>>]
FuzzyAlbumQuery(genre, album, size) ==
    [size   |-> size,
     filter |-> GenreClause(genre),
     must   |-> <<[match |-> "album_name", query |-> The(album),
                   fuzziness |-> "AUTO", operator |-> "and"]>>]

\* applied_filters["search_type"] = "fuzzy_fallback"
FallbackFilters_m(applied_filters) == applied_filters
FallbackFilters(applied_filters) ==
    [track_genre |-> applied_filters.track_genre,
     album       |-> applied_filters.album,
     search_type |-> "fuzzy_fallback"]

\* if result['hits']['total']['value'] == 0 and album:
NeedsFallback_m(ans, album) == Truthy(album)
NeedsFallback(ans, album) == ans.total = 0 /\ Truthy(album)

ReceiveFilter ==
    /\ pc = "idle"
    /\ \E g \in GenreParams, a \in AlbumParams, n \in RequestSizes :
          req' = [op |-> "filter", genre |-> g, album |-> a, size |-> n]
    /\ pc' = "filter"
    /\ calls' = <<>>
    /\ resp' = NoResp
    /\ UNCHANGED <<key_words, word_ix, source_doc>>
    /\ UNCHANGED other_vars

\* the exact query of filter
FilterExact ==
    /\ pc = "filter"
    /\ \E ans \in SearchAnswers(req.size) \cup {EngineFault} :
         /\ calls' = Append(calls,
                Call("filter", ExactQuery(req.genre, req.album, req.size), ans))
         /\ IF ans.fault
              THEN /\ resp' = InternalError
                   /\ pc' = "done"
              ELSE IF NeedsFallback(ans, req.album)
              THEN /\ pc' = "fuzzy_album"
                   /\ UNCHANGED resp
              ELSE /\ resp' = Ok(from_search_hits(Take(ans.hits, ResultCap),
                                   ans.total, AppliedFilters(req.genre, req.album)))
                   /\ pc' = "done"
    /\ UNCHANGED <<req, key_words, word_ix, source_doc>>
    /\ UNCHANGED other_vars

\* fuzzy_album_search
FilterFuzzyAlbum ==
    /\ pc = "fuzzy_album"
    /\ \E ans \in SearchAnswers(req.size) \cup {EngineFault} :
         /\ calls' = Append(calls,
                Call("fuzzy_album", FuzzyAlbumQuery(req.genre, req.album, req.size),
                     ans))
         /\ resp' = IF ans.fault THEN InternalError
                    ELSE Ok(from_search_hits(Take(ans.hits, ResultCap), ans.total,
                               FallbackFilters(AppliedFilters(req.genre, req.album))))
    /\ pc' = "done"
    /\ UNCHANGED <<req, key_words, word_ix, source_doc>>
    /\ UNCHANGED other_vars

(***************************************************************************)
(* The response is handed to the caller; the next request may arrive.      *)
(***************************************************************************)
Reply ==
    /\ pc = "done"
    /\ pc' = "idle"
    /\ req' = [op |-> "none"]
    /\ calls' = <<>>
    /\ key_words' = <<>>
    /\ word_ix' = 0
    /\ source_doc' = NoDoc
    /\ resp' = NoResp
    /\ UNCHANGED other_vars

Next ==
    \/ ReceiveSong
    \/ SongPhrase
    \/ SongPartial
    \/ SongFuzzy
    \/ ReceiveSimilar
    \/ SimilarGet
    \/ SimilarKnn
    \/ ReceiveCompare
    \/ CompareValidate
    \/ CompareQuery
    \/ ReceiveTop
    \/ TopQuery
    \/ ReceiveAlbums
    \/ AlbumsQuery
    \/ ReceiveTracks
    \/ TracksQuery
    \/ ReceivePhrase
    \/ PhraseQuery
    \/ ReceiveFuzzy
    \/ FuzzyQuery
    \/ ReceiveFilter
    \/ FilterExact
    \/ FilterFuzzyAlbum
    \/ Reply

Spec == Init /\ [][Next]_vars

\* a handler that has started runs to its return: the steps after Receive*
HandlerStep ==
    \/ SongPhrase \/ SongPartial \/ SongFuzzy
    \/ SimilarGet \/ SimilarKnn
    \/ CompareValidate \/ CompareQuery
    \/ TopQuery
    \/ AlbumsQuery \/ TracksQuery \/ PhraseQuery \/ FuzzyQuery
    \/ FilterExact \/ FilterFuzzyAlbum

(***************************************************************************)
(* Indexer.create_audio_vector (backend/service/indexer.py).  Raw values   *)
(* and range ends are in hundredths; a normalised component is kept as     *)
(* the exact quotient num/den.                                             *)
(***************************************************************************)
\* ranges = {...}: feature |-> <<min_val, max_val>>
ranges ==
    [danceability     |-> <<0, 99>>,
     energy           |-> <<0, 100>>,
     valence          |-> <<0, 100>>,
     acousticness     |-> <<0, 100>>,
     instrumentalness |-> <<0, 100>>,
     speechiness      |-> <<0, 96>>,
     liveness         |-> <<0, 100>>,
     tempo            |-> <<0, 24337>>,
     loudness         |-> <<-4953, 453>>,
     popularity       |-> <<0, 10000>>]

feature_names ==
    <<"danceability", "energy", "valence", "acousticness",
      "instrumentalness", "speechiness", "liveness",
      "tempo", "loudness", "popularity">>

\* normalized = max(0.0, min(1.0, normalized)), for normalized = num/den, den > 0
Clamp_m(num, den) == [num |-> num, den |-> den]
Clamp(num, den) ==
    [num |-> IF num < 0 THEN 0 ELSE IF num > den THEN den ELSE num,
     den |-> den]

\* the body of the loop: one feature's normalised value
Normalized(value, min_val, max_val) ==
    IF max_val # min_val
      THEN Clamp(value - min_val, max_val - min_val)
      ELSE [num |-> 0, den |-> 1]

create_audio_vector(data) ==
    [i \in DOMAIN feature_names |->
        Normalized(data[feature_names[i]],
                   ranges[feature_names[i]][1],
                   ranges[feature_names[i]][2])]

\* raw values tried for a feature: below its range, its minimum, inside,
\* its maximum, above its range
Kinds == {"below", "min", "inside", "max", "above"}

Sample(feature_name, kind) ==
    LET min_val == ranges[feature_name][1]
        max_val == ranges[feature_name][2]
    IN  CASE kind = "below"  -> min_val - 1
          [] kind = "min"    -> min_val
          [] kind = "inside" -> (min_val + max_val) \div 2
          [] kind = "max"    -> max_val
          [] kind = "above"  -> max_val + 1

Features == {feature_names[i] : i \in DOMAIN feature_names}

\* records with all 10 features numeric: every feature of kind k0 except
\* features g1 and g2, of kinds k1 and k2
TrackDatas ==
    {[f \in Features |->
        Sample(f, IF f = g1 THEN k1 ELSE IF f = g2 THEN k2 ELSE k0)] :
            k0 \in Kinds, k1 \in Kinds, k2 \in Kinds,
            g1 \in Features, g2 \in Features}

InitVector ==
    /\ ApiInit
    /\ ShaperIdle
    /\ SetupIdle
    /\ ConcurrentIdle
    /\ track_data \in TrackDatas
    /\ audio_vector = <<>>

\* audio_vector = self.create_audio_vector(doc)
CreateAudioVector ==
    /\ audio_vector = <<>>
    /\ audio_vector' = create_audio_vector(track_data)
    /\ UNCHANGED <<api_vars, shaper_vars, setup_vars, concurrent_vars,
                   track_data>>

NextVector == CreateAudioVector

SpecVector == InitVector /\ [][NextVector]_vars

(***************************************************************************)
(* Track.from_elasticsearch_hit (backend/service/model.py) on its own: the *)
(* hit's _id is engine-assigned and always there; every _source entry may  *)
(* be absent, null or a value.                                             *)
(***************************************************************************)
\* JSON null in a _source, Python None once read
Null == "<null>"

TextValues == {None, Some(Null), Some("x")}

PopularityValues == {None, Some(0), Some(77)}

SourceHits ==
    [_id         : {"d1"},
     track_id    : {None, Some(Null), Some("t1")},
     track_name  : TextValues,
     album_name  : TextValues,
     popularity  : PopularityValues,
     track_genre : TextValues,
     artists     : TextValues]

InitTrack ==
    /\ ApiInit
    /\ VectorIdle
    /\ SetupIdle
    /\ ConcurrentIdle
    /\ hit \in SourceHits
    /\ track = NoTrack

\* Track.from_elasticsearch_hit(hit, similarity)
FromElasticsearchHit ==
    /\ track = NoTrack
    /\ \E similarity \in {None, Some(50)} :
          track' = from_elasticsearch_hit(hit, similarity)
    /\ UNCHANGED <<api_vars, indexer_vars, setup_vars, concurrent_vars, hit>>

NextTrack == FromElasticsearchHit

SpecTrack == InitTrack /\ [][NextTrack]_vars

(***************************************************************************)
(* setup_data.py: wait_for_elasticsearch, then setup_data with the Indexer *)
(* methods it calls.  Every call to the engine, the download and the load  *)
(* may raise; setup_data catches every exception and returns False.        *)
(***************************************************************************)
\* if attempt < max_retries - 1: time.sleep(delay)
ShouldSleep_m(att, retries) == TRUE
ShouldSleep(att, retries) == att < retries - 1

\* except Exception as e: ... return False   (setup_data)
SetupFailed ==
    /\ spc' = "done"
    /\ setup_result' = "false"

\* one iteration of: for attempt in range(max_retries)
WaitAttempt ==
    /\ spc = "wait"
    /\ attempt' = attempt + 1
    /\ \/ /\ log' = Append(log, "attempt_ok")
          /\ spc' = "check"
          /\ UNCHANGED setup_result
       \/ /\ log' = log \o <<"attempt_failed">> \o
                    (IF ShouldSleep(attempt, max_retries) THEN <<"sleep">> ELSE <<>>)
          /\ IF attempt + 1 < max_retries
               THEN /\ spc' = "wait"
                    /\ UNCHANGED setup_result
               ELSE SetupFailed
    /\ UNCHANGED <<max_retries, index_state, df, batch_size, row_ix, bulk_data,
                   bulks>>
    /\ UNCHANGED <<api_vars, indexer_vars, shaper_vars, concurrent_vars>>

\* indexer.check_index(): creates the index with the mapping when it is absent
\* and returns False; returns True when it exists
CheckIndex ==
    /\ spc = "check"
    /\ \/ /\ index_state = "absent"
          /\ log' = log \o <<"check_index", "create_index">>
          /\ index_state' = "mapped"
          /\ spc' = "download"
          /\ UNCHANGED setup_result
       \/ /\ index_state # "absent"
          /\ log' = Append(log, "check_index")
          /\ spc' = "ask"
          /\ UNCHANGED <<index_state, setup_result>>
       \/ /\ log' = Append(log, "check_index")
          /\ SetupFailed
          /\ UNCHANGED index_state
    /\ UNCHANGED <<max_retries, attempt, df, batch_size, row_ix, bulk_data, bulks>>
    /\ UNCHANGED <<api_vars, indexer_vars, shaper_vars, concurrent_vars>>

\* input("Do you want to recreate the index? (y/N): ").strip().lower()
Responses == {"y", "yes", "n", ""}

\* if response not in ['y', 'yes']: return True
AskRecreate ==
    /\ spc = "ask"
    /\ \E response \in Responses :
         IF response \notin {"y", "yes"}
           THEN /\ spc' = "done"
                /\ setup_result' = "true"
           ELSE /\ spc' = "delete"
                /\ UNCHANGED setup_result
    /\ log' = Append(log, "input")
    /\ UNCHANGED <<max_retries, attempt, index_state, df, batch_size, row_ix,
                   bulk_data, bulks>>
    /\ UNCHANGED <<api_vars, indexer_vars, shaper_vars, concurrent_vars>>

\* indexer.delete_index()
DeleteIndex ==
    /\ spc = "delete"
    /\ log' = Append(log, "delete_index")
    /\ \/ /\ index_state' = "absent"
          /\ spc' = "download"
          /\ UNCHANGED setup_result
       \/ /\ SetupFailed
          /\ UNCHANGED index_state
    /\ UNCHANGED <<max_retries, attempt, df, batch_size, row_ix, bulk_data, bulks>>
    /\ UNCHANGED <<api_vars, indexer_vars, shaper_vars, concurrent_vars>>

\* downloader.download_spotify_data()
Download ==
    /\ spc = "download"
    /\ log' = Append(log, "download")
    /\ \/ /\ spc' = "load"
          /\ UNCHANGED setup_result
       \/ SetupFailed
    /\ UNCHANGED <<max_retries, attempt, index_state, df, batch_size, row_ix,
                   bulk_data, bulks>>
    /\ UNCHANGED <<api_vars, indexer_vars, shaper_vars, concurrent_vars>>

\* a row with all 10 features; a NaN cell is None once index_data has made
\* the row a dict
CompleteRow == [f \in Features |-> Some(Sample(f, "inside"))]

NullableFeatures == {"danceability", "popularity"}

Rows == {CompleteRow} \cup
        {[CompleteRow EXCEPT ![f] = None] : f \in NullableFeatures}

\* the rows of a file without the tempo column
DropColumn(row, column) == [f \in DOMAIN row \ {column} |-> row[f]]

DataFrames ==
    SeqsUpTo(Rows, MaxRows) \cup
    {[i \in 1..n |-> DropColumn(CompleteRow, "tempo")] : n \in 1..MaxRows}

\* indexer.load_data(input_file)
LoadData ==
    /\ spc = "load"
    /\ log' = Append(log, "load_data")
    /\ \/ /\ df' \in DataFrames
          /\ row_ix' = 1
          /\ spc' = "rows"
          /\ UNCHANGED setup_result
       \/ /\ SetupFailed
          /\ UNCHANGED <<df, row_ix>>
    /\ UNCHANGED <<max_retries, attempt, index_state, batch_size, bulk_data,
                   bulks>>
    /\ UNCHANGED <<api_vars, indexer_vars, shaper_vars, concurrent_vars>>

\* the track_id column: the row at position i carries RowIds[i]
RowIds == <<"r1", "r2", "r3", "r4", "r5">>

\* try: audio_vector = self.create_audio_vector(doc) / except: continue.
\* track_data[feature_name] raises on a missing key, None - min_val raises.
TryVector_m(doc) ==
    Some(create_audio_vector(
            [f \in Features |-> IF f \in DOMAIN doc THEN Get(doc[f], 0) ELSE 0]))
TryVector(doc) ==
    IF \E f \in Features : f \notin DOMAIN doc \/ doc[f] = None
      THEN None
      ELSE Some(create_audio_vector([f \in Features |-> The(doc[f])]))

\* if len(bulk_data) >= batch_size
BatchFull_m(data, size) == Len(data) > size
BatchFull(data, size) == Len(data) >= size

\* helpers.bulk on an absent index makes the engine create it, without the
\* explicit mapping
AfterBulk(state, ok) == IF ok /\ state = "absent" THEN "dynamic" ELSE state

BulkCall(docs, ok, final) ==
    [docs |-> docs, ok |-> ok, index |-> index_state, final |-> final]

\* one iteration of: for index, row in self.df.iterrows()
IndexRow ==
    /\ spc = "rows"
    /\ row_ix <= Len(df)
    /\ row_ix' = row_ix + 1
    /\ LET v == TryVector(df[row_ix])
           action == [_id |-> RowIds[row_ix], audio_vector |-> The(v)]
           data == Append(bulk_data, action)
       IN  IF v = None
             THEN UNCHANGED <<bulk_data, bulks, index_state>>
             ELSE IF BatchFull(data, batch_size)
             THEN \E ok \in BOOLEAN :
                    /\ bulks' = Append(bulks, BulkCall(data, ok, FALSE))
                    /\ bulk_data' = <<>>
                    /\ index_state' = AfterBulk(index_state, ok)
             ELSE /\ bulk_data' = data
                  /\ UNCHANGED <<bulks, index_state>>
    /\ UNCHANGED <<spc, max_retries, attempt, log, df, batch_size, setup_result>>
    /\ UNCHANGED <<api_vars, indexer_vars, shaper_vars, concurrent_vars>>

\* if bulk_data: helpers.bulk(self.client, bulk_data); then setup_data returns
IndexFinal ==
    /\ spc = "rows"
    /\ row_ix > Len(df)
    /\ spc' = "done"
    /\ log' = Append(log, "index_data")
    /\ IF bulk_data # <<>>
         THEN \E ok \in BOOLEAN :
                /\ bulks' = Append(bulks, BulkCall(bulk_data, ok, TRUE))
                /\ index_state' = AfterBulk(index_state, ok)
                /\ setup_result' = IF ok THEN "true" ELSE "false"
         ELSE /\ setup_result' = "true"
              /\ UNCHANGED <<bulks, index_state>>
    /\ UNCHANGED <<max_retries, attempt, df, batch_size, row_ix, bulk_data>>
    /\ UNCHANGED <<api_vars, indexer_vars, shaper_vars, concurrent_vars>>

InitSetup ==
    /\ ApiInit
    /\ VectorIdle
    /\ ShaperIdle
    /\ ConcurrentIdle
    /\ spc = "wait"
    /\ max_retries \in 1..MaxRetries
    /\ batch_size \in 1..MaxBatchSize
    /\ index_state \in {"absent", "mapped", "dynamic"}
    /\ attempt = 0
    /\ log = <<>>
    /\ df = <<>>
    /\ row_ix = 0
    /\ bulk_data = <<>>
    /\ bulks = <<>>
    /\ setup_result = "none"

NextSetup ==
    \/ WaitAttempt
    \/ CheckIndex
    \/ AskRecreate
    \/ DeleteIndex
    \/ Download
    \/ LoadData
    \/ IndexRow
    \/ IndexFinal

SpecSetup == InitSetup /\ [][NextSetup]_vars

(***************************************************************************)
(* Concurrent requests.  main.py holds one SpotifySearcher (client and     *)
(* index_name, set once in __init__); every request runs SpotifySearcher   *)
(* .filter on a thread of its own.  filter creates its applied_filters     *)
(* dict, which fuzzy_album_search later changes in place: dicts live on    *)
(* the heap and a thread holds the address of its own.  Threads interleave *)
(* at the engine round trips.                                              *)
(***************************************************************************)
\* the addresses some request in flight still refers to
Live == {threads[p].applied_filters : p \in Threads} \ {NoRef}

\* {...}: evaluating a dict display makes a new object, at an address no
\* live object has
Alloc_m(live) == 1
Alloc(live) == CHOOSE a \in Addresses \ live : \A b \in Addresses \ live : a <= b

\* filter_tracks is called: the thread has the request's parameters
ConcurrentReceive(p) ==
    /\ threads[p].pc = "idle"
    /\ \E g \in GenreParams, a \in AlbumParams :
          threads' = [threads EXCEPT ![p] =
              [IdleThread EXCEPT
                 !.pc = "start",
                 !.req = [op |-> "filter", genre |-> g, album |-> a, size |-> 1]]]
    /\ UNCHANGED heap
    /\ UNCHANGED <<api_vars, indexer_vars, shaper_vars, setup_vars>>

\* filter up to its engine call: applied_filters is created and filled
ConcurrentStart(p) ==
    /\ threads[p].pc = "start"
    /\ LET a == Alloc(Live)
           r == threads[p].req
       IN  /\ heap' = [heap EXCEPT ![a] = AppliedFilters(r.genre, r.album)]
           /\ threads' = [threads EXCEPT ![p].pc = "exact",
                                         ![p].applied_filters = a]
    /\ UNCHANGED <<api_vars, indexer_vars, shaper_vars, setup_vars>>

\* the exact query answers: filter returns, or goes on to fuzzy_album_search
ConcurrentExact(p) ==
    /\ threads[p].pc = "exact"
    /\ \E ans \in SearchAnswers(threads[p].req.size) \cup {EngineFault} :
         LET r == threads[p].req
             sent == Append(threads[p].calls,
                            Call("filter", ExactQuery(r.genre, r.album, r.size), ans))
         IN  threads' = [threads EXCEPT
                ![p].calls = sent,
                ![p].pc = IF ~ans.fault /\ NeedsFallback(ans, r.album)
                            THEN "fuzzy_album" ELSE "done",
                ![p].resp =
                    IF ans.fault THEN InternalError
                    ELSE IF NeedsFallback(ans, r.album) THEN NoResp
                    ELSE Ok(from_search_hits(Take(ans.hits, ResultCap), ans.total,
                                             heap[threads[p].applied_filters]))]
    /\ UNCHANGED heap
    /\ UNCHANGED <<api_vars, indexer_vars, shaper_vars, setup_vars>>

\* the fuzzy album query answers: applied_filters is tagged in place and the
\* response is built from it
ConcurrentFuzzyAlbum(p) ==
    /\ threads[p].pc = "fuzzy_album"
    /\ \E ans \in SearchAnswers(threads[p].req.size) \cup {EngineFault} :
         LET r == threads[p].req
             a == threads[p].applied_filters
             tagged == [heap EXCEPT ![a] = FallbackFilters(heap[a])]
         IN  /\ heap' = IF ans.fault THEN heap ELSE tagged
             /\ threads' = [threads EXCEPT
                   ![p].calls = Append(threads[p].calls,
                       Call("fuzzy_album",
                            FuzzyAlbumQuery(r.genre, r.album, r.size), ans)),
                   ![p].pc = "done",
                   ![p].resp =
                       IF ans.fault THEN InternalError
                       ELSE Ok(from_search_hits(Take(ans.hits, ResultCap),
                                                ans.total, tagged[a]))]
    /\ UNCHANGED <<api_vars, indexer_vars, shaper_vars, setup_vars>>

\* the response is sent; the request's dict is garbage
ConcurrentReply(p) ==
    /\ threads[p].pc = "done"
    /\ threads' = [threads EXCEPT ![p] = IdleThread]
    /\ UNCHANGED heap
    /\ UNCHANGED <<api_vars, indexer_vars, shaper_vars, setup_vars>>

InitConcurrent ==
    /\ ApiInit
    /\ VectorIdle
    /\ ShaperIdle
    /\ SetupIdle
    /\ ConcurrentIdle

NextConcurrent ==
    \E p \in Threads :
        \/ ConcurrentReceive(p)
        \/ ConcurrentStart(p)
        \/ ConcurrentExact(p)
        \/ ConcurrentFuzzyAlbum(p)
        \/ ConcurrentReply(p)

SpecConcurrent == InitConcurrent /\ [][NextConcurrent]_vars

(***************************************************************************)
(* Properties of the smart song resolver.                                  *)
(***************************************************************************)
SongReq == req.op = "song"

\* the track ids of a list of engine hits / of a result list
HitIds(hits) == [i \in DOMAIN hits |-> hits[i]._id]
ResultIds(results) == [i \in DOMAIN results |-> results[i].track_id]

\* the response is the shaped answer of engine call c, tagged with stage `kind`
\* (the partial stage keeps the first 10 hits of its answer)
IsResultOf(c, kind) ==
    /\ resp.status = 200
    /\ resp.body.total_tracks = c.total
    /\ ResultIds(resp.body.results) =
          HitIds(IF kind = "partial"
                   THEN SubSeq(c.hits, 1, Min(10, Len(c.hits)))
                   ELSE c.hits)
    /\ resp.body.filters.search_type = kind
    /\ resp.body.filters.query = c.query

KindsCalled == {calls[i].kind : i \in DOMAIN calls}

\* C1: once the phrase search on the raw query has reported total_tracks > 0,
\* the request is finished with exactly that phrase result and the log of
\* engine calls holds the phrase call only (no partial, no fuzzy call).
C1_PhraseHitReturnsAtStage1 ==
    (SongReq /\ calls # <<>> /\ ~calls[1].fault /\ calls[1].total > 0) =>
        /\ pc = "done"
        /\ Len(calls) = 1
        /\ calls[1].kind = "phrase" /\ calls[1].query = req.song
        /\ KindsCalled \cap {"partial", "fuzzy"} = {}
        /\ IsResultOf(calls[1], "phrase")

C1_Witness ==
    /\ SongReq /\ pc = "done" /\ Len(calls) = 1
    /\ calls[1].total = 2 /\ Len(req.song) = 2
    /\ KeyWords(req.song) # <<>>
    /\ resp.status = 200 /\ resp.body.total_tracks = 2

\* position in the title of the j-th token that is not a stop word
KeyPositions(title) == {i \in DOMAIN title : Lower(title[i]) \notin stop_words}
NthKeyPosition(title, j) ==
    CHOOSE i \in KeyPositions(title) :
        Cardinality({k \in KeyPositions(title) : k <= i}) = j

\* C2: when the phrase search found nothing and the partial search on the
\* title's non-stop words (lowercased, in order) reported total_tracks > 0,
\* the request is finished with that partial result after exactly two engine
\* calls, none of them fuzzy.
C2_PartialHitSkipsFuzzy ==
    (SongReq /\ Len(calls) >= 2 /\ ~calls[2].fault /\ calls[2].total > 0) =>
        /\ pc = "done"
        /\ Len(calls) = 2
        /\ calls[1].kind = "phrase" /\ calls[1].total = 0
        /\ calls[2].kind = "partial"
        /\ Len(calls[2].query) = Cardinality(KeyPositions(req.song))
        /\ \A j \in DOMAIN calls[2].query :
              calls[2].query[j] = Lower(req.song[NthKeyPosition(req.song, j)])
        /\ "fuzzy" \notin KindsCalled
        /\ IsResultOf(calls[2], "partial")

C2_Witness ==
    /\ SongReq /\ pc = "done" /\ Len(calls) = 2
    /\ req.song = <<"The", "Love", "song">>
    /\ calls[2].query = <<"love", "song">>
    /\ calls[2].total = 1
    /\ resp.status = 200 /\ resp.body.filters.search_type = "partial"

\* C3: the j-th fuzzy call of a request queries exactly the j-th non-stop word
\* of the title alone; every fuzzy call before the last one found nothing; and
\* a fuzzy call that reports total_tracks > 0 is the last call of the request,
\* whose response is that call's result.
C3_FuzzyInOrderFirstHitWins ==
    SongReq =>
        \A i \in DOMAIN calls :
            calls[i].kind = "fuzzy" =>
                /\ i >= 3
                /\ i - 2 <= Cardinality(KeyPositions(req.song))
                /\ calls[i].query =
                       <<Lower(req.song[NthKeyPosition(req.song, i - 2)])>>
                /\ i < Len(calls) => (~calls[i].fault /\ calls[i].total = 0)
                /\ (~calls[i].fault /\ calls[i].total > 0) =>
                       /\ i = Len(calls)
                       /\ pc = "done"
                       /\ IsResultOf(calls[i], "fuzzy")

C3_Witness ==
    /\ SongReq /\ pc = "done" /\ Len(calls) = 4
    /\ req.song = <<"Love", "a", "song">>
    /\ calls[3].query = <<"love">> /\ calls[3].total = 0
    /\ calls[4].query = <<"song">> /\ calls[4].total = 1
    /\ resp.status = 200 /\ resp.body.filters.search_type = "fuzzy"

AllCallsEmpty == \A i \in DOMAIN calls : ~calls[i].fault /\ calls[i].total = 0

\* C4: a finished song search all of whose engine calls returned zero matches
\* (also when only the phrase call was made because the title holds stop words
\* only) is a 200 response with total_tracks = 0, no results and
\* filters.status = "no_matches".
C4_ExhaustionIsEmptySuccess ==
    (SongReq /\ pc = "done" /\ AllCallsEmpty) =>
        /\ resp.status = 200
        /\ resp.body.total_tracks = 0
        /\ resp.body.results = <<>>
        /\ "status" \in DOMAIN resp.body.filters
        /\ resp.body.filters.status = "no_matches"

C4_Witness ==
    /\ SongReq /\ pc = "done" /\ AllCallsEmpty
    /\ req.song = <<"The", "a">>
    /\ Len(calls) = 1
    /\ resp.status = 200 /\ resp.body.filters.status = "no_matches"

C4_WitnessAllStages ==
    /\ SongReq /\ pc = "done" /\ AllCallsEmpty
    /\ Len(calls) = 4
    /\ resp.status = 200 /\ resp.body.filters.status = "no_matches"

(***************************************************************************)
(* Properties of the similarity lookup.                                    *)
(***************************************************************************)
SimilarReq == req.op = "similar"

\* C5: no track of a similarity response has the identity of the track the
\* lookup was made for, whatever hits the engine returned.
C5_SourceTrackExcluded ==
    (SimilarReq /\ pc = "done" /\ resp.status = 200) =>
        \A i \in DOMAIN resp.body.results :
            resp.body.results[i].track_id # req.track_id

C5_Witness ==
    /\ SimilarReq /\ pc = "done" /\ resp.status = 200
    /\ req.size = 2
    /\ Len(calls[2].hits) = 3
    /\ calls[2].hits[1]._id = req.track_id
    /\ calls[2].hits[3]._id = req.track_id
    /\ calls[2].hits[2]._id # req.track_id
    /\ Len(resp.body.results) = 1

\* C8: a similarity lookup for a track id that is not in the index, answered
\* by the engine without a fault, ends with HTTP 404.
C8_AbsentTrackIs404 ==
    (SimilarReq /\ pc = "done" /\ req.track_id \notin TrackIds
        /\ ~calls[1].fault) =>
        resp.status = NotFoundStatus

(***************************************************************************)
(* Properties of the genre comparison.                                     *)
(***************************************************************************)
CompareReq == req.op = "compare"

CountOutOfRange == Len(req.genres) < 2 \/ Len(req.genres) > 10

\* C7: a comparison request with fewer than 2 or more than 10 genres ends with
\* HTTP 400, which is not the status of an internal failure.
C7_BadGenreCountIs400 ==
    (CompareReq /\ pc = "done" /\ CountOutOfRange) =>
        /\ resp.status = BadRequestStatus
        /\ resp.status # ExceptHandlerStatus

\* C9: a comparison request with fewer than 2 or more than 10 genres never
\* reaches the engine: its call log stays empty and it ends with an error
\* status.
C9_BadGenreCountNoEngineCall ==
    (CompareReq /\ CountOutOfRange) =>
        /\ calls = <<>>
        /\ pc # "agg"
        /\ pc = "done" => resp.status >= 400

C9_Witness ==
    /\ CompareReq /\ pc = "done"
    /\ Len(req.genres) = 11
    /\ calls = <<>>
    /\ resp.status = 500

\* C10: in a successful comparison the i-th entry of the response carries the
\* statistics the catalogue holds for the i-th requested genre name.
C10_StatsOfTheNamedGenre ==
    (CompareReq /\ pc = "done" /\ resp.status = 200) =>
        /\ Len(resp.body.genres) = Len(req.genres)
        /\ \A i \in DOMAIN req.genres :
              resp.body.genres[i].track_count =
                  calls[1].catalogue[req.genres[i]].track_count

\* C11: every entry of a successful comparison carries, in its genre field,
\* the string that was requested at that position, '-' included.
C11_GenreFieldIsRequestedName ==
    (CompareReq /\ pc = "done" /\ resp.status = 200) =>
        /\ Len(resp.body.genres) = Len(req.genres)
        /\ \A i \in DOMAIN req.genres :
              resp.body.genres[i].genre = req.genres[i]

C11_Witness ==
    /\ CompareReq /\ pc = "done" /\ resp.status = 200
    /\ req.genres = <<<<"pop">>, <<"hip", "-", "hop">>>>
    /\ resp.body.genres[2].genre = <<"hip", "-", "hop">>
    /\ AggKey(req.genres[2]) = <<"genre_", "hip", "_", "hop">>

\* the sub-aggregations of the query that filter on genre g
SubAggsOn(query, g) == {k \in DOMAIN query : query[k] = g}

\* C12: the query of a comparison holds exactly one sub-aggregation filtering
\* on each requested genre, and an answered comparison returns one GenreStats
\* per requested genre, in the order of the request.
C12_OneSubAggregationPerGenre ==
    (CompareReq /\ pc = "done" /\ resp.status = 200) =>
        /\ \A i \in DOMAIN req.genres :
              Cardinality(SubAggsOn(calls[1].query, req.genres[i])) = 1
        /\ Len(resp.body.genres) = Len(req.genres)
        /\ \A i \in DOMAIN req.genres :
              resp.body.genres[i].genre = req.genres[i]

(***************************************************************************)
(* Properties of the top-artists ranking.                                  *)
(***************************************************************************)
TopReq == req.op = "top"

\* C6: no artist of a top-artists response has fewer tracks in the genre than
\* the min_tracks the request asked for.
C6_MinTracksHonoured ==
    (TopReq /\ pc = "done" /\ resp.status = 200) =>
        \A i \in DOMAIN resp.body.top_artists :
            resp.body.top_artists[i].track_count >= req.min_tracks

\* C13: in a top-artists response the i-th entry has rank i and the rounded
\* avg_popularity never increases along the list.
C13_RankedAndNonIncreasing ==
    (TopReq /\ pc = "done" /\ resp.status = 200) =>
        LET a == resp.body.top_artists
        IN  /\ \A i \in DOMAIN a : a[i].rank = i
            /\ \A i, j \in DOMAIN a :
                  i < j => a[i].avg_popularity >= a[j].avg_popularity

\* two artists whose averages differ before rounding and agree after it
C13_Witness ==
    /\ TopReq /\ pc = "done" /\ resp.status = 200
    /\ Len(resp.body.top_artists) = 2
    /\ calls[1].hits[1].avg_popularity = 4525
    /\ calls[1].hits[2].avg_popularity = 4515
    /\ resp.body.top_artists[1].avg_popularity = 452
    /\ resp.body.top_artists[2].avg_popularity = 452
    /\ resp.body.top_artists[2].rank = 2

(***************************************************************************)
(* Properties of filter.                                                   *)
(***************************************************************************)
FilterReq == req.op = "filter"

AlbumGiven == req.album # {} /\ req.album # {""}
GenreGiven == req.genre # {} /\ req.genre # {""}

ExactFoundNothing == calls # <<>> /\ ~calls[1].fault /\ calls[1].total = 0

\* C14: a finished filter request whose exact query found nothing and whose
\* album is non-empty has issued a second query: a fuzzy (AUTO), all-tokens
\* ("and") match of the album on album_name, filtered on the genre term exactly
\* when a genre was given; the response built from its answer is tagged
\* search_type = "fuzzy_fallback".
C14_FuzzyAlbumFallback ==
    (FilterReq /\ pc = "done" /\ ExactFoundNothing /\ AlbumGiven) =>
        /\ Len(calls) = 2
        /\ calls[2].kind = "fuzzy_album"
        /\ calls[2].query.must =
              <<[match |-> "album_name", query |-> The(req.album),
                 fuzziness |-> "AUTO", operator |-> "and"]>>
        /\ calls[2].query.filter =
              IF GenreGiven
                THEN <<[term |-> "track_genre", value |-> The(req.genre)]>>
                ELSE <<>>
        /\ ~calls[2].fault =>
              /\ resp.status = 200
              /\ resp.body.filters.search_type = "fuzzy_fallback"
              /\ resp.body.total_tracks = calls[2].total
              /\ \A i \in DOMAIN resp.body.results :
                    resp.body.results[i].track_id = calls[2].hits[i]._id

C14_Witness ==
    /\ FilterReq /\ pc = "done"
    /\ req.genre = {"jazz"} /\ req.album = {"Kind of Blue"}
    /\ Len(calls) = 2 /\ calls[1].total = 0 /\ calls[2].total = 1
    /\ resp.status = 200
    /\ resp.body.filters.search_type = "fuzzy_fallback"

(***************************************************************************)
(* Properties of all endpoints.                                            *)
(***************************************************************************)
OneQueryOps == {"albums", "tracks", "phrase", "fuzzy", "filter", "similar",
                "compare", "top"}

\* C15 as stated: every finished request other than the smart song search has
\* issued exactly one engine call.
C15_ExactlyOneCall ==
    (pc = "done" /\ req.op \in OneQueryOps) => Len(calls) = 1

\* C15 as amended: albums, tracks, phrase, fuzzy and top-artists requests
\* issue exactly one engine call; a comparison issues one, or none when its
\* genre count is out of range; filter issues one, or two when its exact query
\* found nothing and an album was given; a similarity lookup issues two (the
\* document get, then the kNN search), or one when the get fails or finds no
\* document.
C15_CallsPerRequest ==
    pc = "done" =>
        /\ req.op \in {"albums", "tracks", "phrase", "fuzzy", "top"} =>
              Len(calls) = 1
        /\ req.op = "compare" =>
              Len(calls) = IF CountOutOfRange THEN 0 ELSE 1
        /\ req.op = "filter" =>
              Len(calls) = IF ExactFoundNothing /\ AlbumGiven THEN 2 ELSE 1
        /\ req.op = "similar" =>
              Len(calls) = IF calls[1].fault \/ req.track_id \notin TrackIds
                             THEN 1 ELSE 2

C15_Witness ==
    /\ pc = "done" /\ req.op = "filter"
    /\ req.album = {"Kind of Blue"}
    /\ Len(calls) = 2
    /\ resp.status = 200

\* C16: a failed engine call is the last call of its request, and the request
\* is finished with an error status.
C16_FaultEndsTheRequest ==
    \A i \in DOMAIN calls :
        calls[i].fault =>
            /\ i = Len(calls)
            /\ pc = "done"
            /\ resp.status >= 400

C16_Witness ==
    /\ SongReq /\ pc = "done"
    /\ Len(calls) = 2 /\ Len(key_words) = 2
    /\ calls[2].kind = "partial" /\ calls[2].fault
    /\ resp.status = 500

(***************************************************************************)
(* Properties of the similarity shaping.                                   *)
(***************************************************************************)
NotTheSource(h) == h._id # req.track_id

\* the engine hits of the kNN call that are not the source track, in order
OtherHits == SelectSeq(calls[2].hits, NotTheSource)

\* C17: the similarity of the i-th returned track is the engine score of the
\* i-th hit that is not the source track, minus 1 (100 hundredths), and lies
\* in [0, 1] for engine scores in [1, 2].
C17_SimilarityIsScoreMinusOne ==
    (SimilarReq /\ pc = "done" /\ resp.status = 200) =>
        \A i \in DOMAIN resp.body.results :
            /\ resp.body.results[i].similarity = {OtherHits[i]._score - 100}
            /\ \A v \in resp.body.results[i].similarity : v >= 0 /\ v <= 100

C17_Witness ==
    /\ SimilarReq /\ pc = "done" /\ resp.status = 200
    /\ Len(resp.body.results) = 2
    /\ resp.body.results[1].similarity = {100}
    /\ resp.body.results[2].similarity = {50}

\* C18: the result list of a similarity lookup is the first min(size, m) hits
\* that are not the source track, in the engine's order (m their number), and
\* total_tracks is its length.
C18_FirstSizeOtherHits ==
    (SimilarReq /\ pc = "done" /\ resp.status = 200) =>
        /\ Len(resp.body.results) = Min(req.size, Len(OtherHits))
        /\ \A i \in DOMAIN resp.body.results :
              /\ resp.body.results[i].track_id = OtherHits[i]._id
              /\ resp.body.results[i].similarity = {OtherHits[i]._score - 100}
        /\ resp.body.total_tracks = Len(resp.body.results)

C18_Witness ==
    /\ SimilarReq /\ pc = "done" /\ resp.status = 200
    /\ req.size = 1
    /\ Len(calls[2].hits) = 2
    /\ Len(OtherHits) = 2
    /\ calls[2].hits[1]._score = 200 /\ calls[2].hits[2]._score = 150
    /\ Len(resp.body.results) = 1
    /\ resp.body.results[1].similarity = {100}

(***************************************************************************)
(* Properties of the list-valued track responses.                          *)
(***************************************************************************)
SizedTrackOps == {"tracks", "phrase", "fuzzy", "filter", "similar"}

\* the track list of a 200 response
TrackList == IF req.op = "tracks" THEN resp.body.tracks ELSE resp.body.results

LastCall == calls[Len(calls)]

\* the song search answered from its partial stage
PartialStageResponse ==
    /\ SongReq
    /\ "search_type" \in DOMAIN resp.body.filters
    /\ resp.body.filters.search_type = "partial"

\* C20: a 200 response of an endpoint with a size parameter lists at most
\* size tracks; filter (exact or fuzzy album fallback) and the partial stage of
\* the song search list at most 10 tracks whatever the size, the first ones of
\* the engine's answer, and their total_tracks is the engine's match count.
C20_ListsAreCapped ==
    (pc = "done" /\ resp.status = 200) =>
        /\ req.op \in SizedTrackOps => Len(TrackList) <= req.size
        /\ (req.op = "filter" \/ PartialStageResponse) =>
              /\ Len(TrackList) <= 10
              /\ Len(TrackList) = Min(10, Len(LastCall.hits))
              /\ \A i \in DOMAIN TrackList :
                    TrackList[i].track_id = LastCall.hits[i]._id
              /\ resp.body.total_tracks = LastCall.total

C20_Witness ==
    /\ pc = "done" /\ resp.status = 200
    /\ req.op = "filter" /\ req.size = 11
    /\ Len(calls) = 2
    /\ Len(LastCall.hits) = 11
    /\ Len(TrackList) = 10
    /\ resp.body.total_tracks = 12

C20_WitnessPartial ==
    /\ pc = "done" /\ resp.status = 200
    /\ PartialStageResponse
    /\ Len(LastCall.hits) = 12
    /\ Len(TrackList) = 10
    /\ resp.body.total_tracks = 12

(***************************************************************************)
(* Properties of create_audio_vector.                                      *)
(***************************************************************************)
\* the documented order of the components, with each feature's documented
\* minimum and maximum (hundredths)
Documented ==
    <<<<"danceability", 0, 99>>, <<"energy", 0, 100>>, <<"valence", 0, 100>>,
      <<"acousticness", 0, 100>>, <<"instrumentalness", 0, 100>>,
      <<"speechiness", 0, 96>>, <<"liveness", 0, 100>>,
      <<"tempo", 0, 24337>>, <<"loudness", -4953, 453>>,
      <<"popularity", 0, 10000>>>>

\* component c (a quotient num/den) has the value of x / range_width
IsQuotient(c, x, range_width) == c.num * range_width = x * c.den

\* C19: the vector built from a record with 10 numeric features has exactly
\* 10 components, the i-th being the normalised value of the i-th documented
\* feature: within [0, 1], 0 at or below the documented minimum, 1 at or above
\* the documented maximum, and (value - min) / (max - min) in between.
C19_VectorIsNormalised ==
    audio_vector # <<>> =>
        /\ Len(audio_vector) = 10
        /\ \A i \in 1..10 :
              LET c == audio_vector[i]
                  value == track_data[Documented[i][1]]
                  lo == Documented[i][2]
                  hi == Documented[i][3]
              IN  /\ c.den > 0
                  /\ 0 <= c.num /\ c.num <= c.den
                  /\ value <= lo => c.num = 0
                  /\ value >= hi => c.num = c.den
                  /\ (lo <= value /\ value <= hi) =>
                        IsQuotient(c, value - lo, hi - lo)

C19_Witness ==
    /\ audio_vector # <<>>
    /\ track_data.loudness = -4953 /\ audio_vector[9].num = 0
    /\ track_data.tempo = 24337 /\ audio_vector[8].num = audio_vector[8].den
    /\ track_data.danceability = 49 /\ audio_vector[1] = [num |-> 49, den |-> 99]

C19_WitnessClamped ==
    /\ audio_vector # <<>>
    /\ track_data.loudness = 454 /\ audio_vector[9].num = audio_vector[9].den
    /\ track_data.popularity = -1 /\ audio_vector[10].num = 0

(***************************************************************************)
(* Further properties of the top-artists ranking.                          *)
(***************************************************************************)
\* C22: the top_artists list of a 200 response holds the first
\* min(size, number of engine buckets) buckets of the engine's answer, the
\* i-th entry being the i-th bucket with rank i.
C22_FirstSizeBucketsInOrder ==
    (TopReq /\ pc = "done" /\ resp.status = 200) =>
        LET buckets == LastCall.hits
            top == resp.body.top_artists
        IN  /\ Len(top) = Min(req.size, Len(buckets))
            /\ \A i \in DOMAIN top :
                  /\ top[i].rank = i
                  /\ top[i].artist = buckets[i].key
                  /\ top[i].track_count = buckets[i].doc_count

C22_Witness ==
    /\ TopReq /\ pc = "done" /\ resp.status = 200
    /\ req.size = 1
    /\ Len(LastCall.hits) = 2
    /\ Len(resp.body.top_artists) = 1
    /\ resp.body.top_artists[1].artist = LastCall.hits[1].key

(***************************************************************************)
(* Further properties of the smart song resolver.                          *)
(***************************************************************************)
\* the stage of the i-th engine call of a song search
StageOf(i) == IF i = 1 THEN "phrase" ELSE IF i = 2 THEN "partial" ELSE "fuzzy"

SongCallsInOrder ==
    SongReq =>
        /\ Len(calls) <= Cardinality(KeyPositions(req.song)) + 2
        /\ \A i \in DOMAIN calls :
              /\ calls[i].kind = StageOf(i)
              /\ i >= 3 => calls[i].query =
                     <<Lower(req.song[NthKeyPosition(req.song, i - 2)])>>
              /\ \A j \in 1..(i - 1) : ~calls[j].fault /\ calls[j].total = 0
        /\ (pc = "done" /\ \A i \in DOMAIN calls : ~calls[i].fault) =>
              resp.status = 200

SongInFlight == SongReq /\ pc # "done"

\* C25: a song search with n non-stop-word tokens issues at most n + 2 engine
\* calls, the i-th being phrase, partial, fuzzy(word 1), ..., fuzzy(word n) in
\* that order and issued only after every earlier call returned zero matches.
\* It terminates: while it is in flight its next step can always be taken and
\* every step it takes issues one more of these at most n + 2 calls; it ends
\* with a 200 result when no engine call failed.
C25_LinearChainTerminates ==
    /\ []SongCallsInOrder
    /\ [](SongInFlight => ENABLED HandlerStep)
    /\ [][SongInFlight => Len(calls') = Len(calls) + 1]_vars

C25_Witness ==
    /\ SongReq /\ pc = "done" /\ resp.status = 200
    /\ req.song = <<"Love", "The", "song">>
    /\ Len(calls) = 4
    /\ calls[4].kind = "fuzzy" /\ calls[4].query = <<"song">>

\* C26: in a 200 response of the song search, search_type names a stage
\* exactly when that stage made the last engine call and it reported matches,
\* and is "smart" exactly when every engine call reported zero matches; the
\* status key is present exactly when total_tracks = 0.
C26_SearchTypeTellsTheStage ==
    (SongReq /\ pc = "done" /\ resp.status = 200) =>
        /\ \A stage \in {"phrase", "partial", "fuzzy"} :
              resp.body.filters.search_type = stage <=>
                  (LastCall.kind = stage /\ LastCall.total > 0)
        /\ resp.body.filters.search_type = "smart" <=> AllCallsEmpty
        /\ "status" \in DOMAIN resp.body.filters <=> resp.body.total_tracks = 0

C26_Witness ==
    /\ SongReq /\ pc = "done" /\ resp.status = 200
    /\ Len(calls) = 3
    /\ resp.body.filters.search_type = "fuzzy"
    /\ resp.body.total_tracks = 2
    /\ "status" \notin DOMAIN resp.body.filters

C26_WitnessNoMatch ==
    /\ SongReq /\ pc = "done" /\ resp.status = 200
    /\ Len(calls) = 3
    /\ resp.body.filters.search_type = "smart"
    /\ "status" \in DOMAIN resp.body.filters

(***************************************************************************)
(* Further properties of filter.                                           *)
(***************************************************************************)
FallbackRan == \E i \in DOMAIN calls : calls[i].kind = "fuzzy_album"

TaggedFallback ==
    /\ "search_type" \in DOMAIN resp.body.filters
    /\ resp.body.filters.search_type = "fuzzy_fallback"

\* C27: filter issues the fuzzy album query only if its exact query returned
\* zero matches and an album was given; otherwise it issues exactly one engine
\* call and a 200 response's filters hold no search_type key; a 200 response
\* is tagged "fuzzy_fallback" exactly when the fallback query ran.
C27_FallbackOnlyWhenNeeded ==
    FilterReq =>
        /\ FallbackRan => (ExactFoundNothing /\ AlbumGiven)
        /\ (pc = "done" /\ ~(ExactFoundNothing /\ AlbumGiven)) =>
              /\ Len(calls) = 1
              /\ resp.status = 200 =>
                    "search_type" \notin DOMAIN resp.body.filters
        /\ (pc = "done" /\ resp.status = 200) =>
              (TaggedFallback <=> FallbackRan)

C27_Witness ==
    /\ FilterReq /\ pc = "done" /\ resp.status = 200
    /\ req.album = {"Kind of Blue"} /\ req.genre = {}
    /\ Len(calls) = 1 /\ calls[1].total = 1
    /\ "search_type" \notin DOMAIN resp.body.filters

C27_WitnessFallback ==
    /\ FilterReq /\ pc = "done" /\ resp.status = 200
    /\ FallbackRan /\ TaggedFallback
    /\ calls[2].total = 0

(***************************************************************************)
(* Properties of Track.from_elasticsearch_hit.                             *)
(***************************************************************************)
TextFields == {"track_name", "album_name", "track_genre", "artists"}

\* C24: the Track built from a hit has every field whatever entries the hit's
\* content lacks: an absent text field is the empty string and a present one
\* its value, absent popularity is 0, and track_id is the content's track_id
\* when present and the hit's document id otherwise.
C24_AbsentFieldsGetDefaults ==
    track # NoTrack =>
        /\ DOMAIN track = TextFields \cup {"track_id", "popularity", "similarity"}
        /\ \A name \in TextFields :
              track[name] = IF hit[name] = {} THEN "" ELSE The(hit[name])
        /\ track.popularity =
              IF hit.popularity = {} THEN 0 ELSE The(hit.popularity)
        /\ track.track_id =
              IF hit.track_id = {} THEN hit._id ELSE The(hit.track_id)

C24_Witness ==
    /\ track # NoTrack
    /\ hit.track_id = {} /\ track.track_id = "d1"
    /\ hit.track_name = {} /\ track.track_name = ""
    /\ hit.popularity = {} /\ track.popularity = 0
    /\ hit.artists = {"x"} /\ track.artists = "x"

(***************************************************************************)
(* Properties of the setup script.                                         *)
(***************************************************************************)
AttemptEvents == {"attempt_ok", "attempt_failed"}

CountOf(events) == Cardinality({i \in DOMAIN log : log[i] \in events})

\* wait_for_elasticsearch has returned False
WaitReturnedFalse == spc \notin {"idle", "wait"} /\ CountOf({"attempt_ok"}) = 0

\* C30: wait_for_elasticsearch makes at most max_retries attempts; a successful
\* attempt is its last one; it returns False only after max_retries failed
\* attempts; every sleep directly follows a failed attempt and is followed by
\* another attempt (none after the last failure); and when it returned False
\* setup_data returns False having done nothing else: no index check,
\* deletion, download, load or bulk call.
C30_WaitIsBounded ==
    spc # "idle" =>
        /\ CountOf(AttemptEvents) = attempt
        /\ attempt <= max_retries
        /\ \A i \in DOMAIN log :
              log[i] = "attempt_ok" =>
                  \A j \in DOMAIN log : j > i => log[j] \notin AttemptEvents \cup {"sleep"}
        /\ \A i \in DOMAIN log :
              log[i] = "sleep" =>
                  /\ i > 1 /\ log[i - 1] = "attempt_failed"
                  /\ IF i = Len(log) THEN spc = "wait"
                                     ELSE log[i + 1] \in AttemptEvents
        /\ WaitReturnedFalse =>
              /\ CountOf({"attempt_failed"}) = max_retries
              /\ CountOf(AttemptEvents \cup {"sleep"}) = Len(log)
              /\ log[Len(log)] = "attempt_failed"
              /\ bulks = <<>>
              /\ spc = "done" /\ setup_result = "false"

C30_Witness ==
    /\ max_retries = 3
    /\ log = <<"attempt_failed", "sleep", "attempt_failed", "sleep",
               "attempt_failed">>
    /\ spc = "done" /\ setup_result = "false"

C30_WitnessSuccess ==
    /\ max_retries = 3 /\ attempt = 2
    /\ Len(log) >= 4
    /\ SubSeq(log, 1, 4) = <<"attempt_failed", "sleep", "attempt_ok", "check_index">>

\* C28: every bulk call is made while the index is one that was created with
\* the explicit mapping.
C28_BulkIntoMappedIndex ==
    \A i \in DOMAIN bulks : bulks[i].index = "mapped"

C28_WitnessMapped ==
    /\ spc = "done" /\ setup_result = "true"
    /\ Len(bulks) = 2
    /\ \A i \in DOMAIN bulks : bulks[i].index = "mapped" /\ bulks[i].ok

(***************************************************************************)
(* Properties of index_data.                                               *)
(***************************************************************************)
\* the rows index_data has gone through
Processed == 1..Min(row_ix - 1, Len(df))

\* row i lacks one of the 10 features: no such column, or a null cell
Incomplete(i) ==
    \E n \in 1..10 :
        \/ Documented[n][1] \notin DOMAIN df[i]
        \/ df[i][Documented[n][1]] = {}

\* the places where row i sits in bulk call j
PlacesIn(i, j) == {k \in DOMAIN bulks[j].docs : bulks[j].docs[k]._id = RowIds[i]}

\* the number of times row i was put in a bulk call
TimesSent(i) ==
    Cardinality(UNION {{<<j, k>> : k \in PlacesIn(i, j)} : j \in DOMAIN bulks})

Waiting(i) == \E k \in DOMAIN bulk_data : bulk_data[k]._id = RowIds[i]

IndexDataReturned == spc = "done" /\ log # <<>> /\ log[Len(log)] = "index_data"

\* C23: a row that lacks one of the 10 features is never placed in a bulk call
\* nor in the waiting batch; every action sent carries the 10 components
\* normalised from its own row's values; and the complete rows, also those
\* after an incomplete one, have all been sent when index_data ends.
C23_IncompleteRowsAreSkipped ==
    spc \in {"rows", "done"} =>
        /\ \A i \in DOMAIN df :
              Incomplete(i) => (TimesSent(i) = 0 /\ ~Waiting(i))
        /\ \A j \in DOMAIN bulks : \A k \in DOMAIN bulks[j].docs :
              \E i \in DOMAIN df :
                  /\ bulks[j].docs[k]._id = RowIds[i]
                  /\ Len(bulks[j].docs[k].audio_vector) = 10
                  /\ \A n \in 1..10 :
                        IsQuotient(bulks[j].docs[k].audio_vector[n],
                                   The(df[i][Documented[n][1]]) - Documented[n][2],
                                   Documented[n][3] - Documented[n][2])
        /\ IndexDataReturned =>
              \A i \in DOMAIN df : ~Incomplete(i) => TimesSent(i) = 1

C23_Witness ==
    /\ IndexDataReturned
    /\ Len(df) = 3
    /\ df[1].popularity = {} /\ ~Incomplete(2) /\ Incomplete(3)
    /\ Len(bulks) = 1
    /\ Len(bulks[1].docs) = 1 /\ bulks[1].docs[1]._id = "r2"

C23_WitnessNoColumn ==
    /\ IndexDataReturned
    /\ Len(df) = 2
    /\ "tempo" \notin DOMAIN df[1]
    /\ bulks = <<>>

\* C29: every row index_data has gone through is either one whose vector
\* could not be built, and then in no bulk call, or in exactly one bulk call
\* (or still waiting for it while the loop runs); no bulk call carries more
\* than batch_size actions; a bulk call that failed inside the loop is not the
\* end: all complete rows have been in exactly one bulk call when index_data
\* ends.
C29_EveryRowSentOnce ==
    spc \in {"rows", "done"} =>
        /\ \A i \in Processed :
              IF TryVector(df[i]) = None
                THEN TimesSent(i) = 0
                ELSE IF IndexDataReturned \/ ~Waiting(i)
                       THEN TimesSent(i) = 1
                       ELSE TimesSent(i) = 0
        /\ \A i \in DOMAIN df : i \notin Processed => TimesSent(i) = 0
        /\ \A j \in DOMAIN bulks :
              /\ Len(bulks[j].docs) >= 1
              /\ Len(bulks[j].docs) <= batch_size
        /\ IndexDataReturned => row_ix = Len(df) + 1

C29_Witness ==
    /\ IndexDataReturned
    /\ Len(df) = 3 /\ batch_size = 2
    /\ \A i \in DOMAIN df : ~Incomplete(i)
    /\ Len(bulks) = 2
    /\ ~bulks[1].ok /\ ~bulks[1].final /\ Len(bulks[1].docs) = 2
    /\ bulks[2].ok /\ bulks[2].final /\ bulks[2].docs[1]._id = "r3"

(***************************************************************************)
(* Properties of concurrent requests.                                      *)
(***************************************************************************)
InFlight(p) == threads[p].applied_filters # NoRef

\* the genre / album constraint of thread p's request, None when not given
OwnGenre(p) ==
    IF threads[p].req.genre \in {{}, {""}} THEN {} ELSE threads[p].req.genre
OwnAlbum(p) ==
    IF threads[p].req.album \in {{}, {""}} THEN {} ELSE threads[p].req.album

\* thread p's fallback query has answered
OwnFallbackAnswered(p) ==
    /\ Len(threads[p].calls) = 2
    /\ ~threads[p].calls[2].fault

\* the filters dict f is the one of thread p's request alone
OwnFilters(p, f) ==
    /\ f.track_genre = OwnGenre(p)
    /\ f.album = OwnAlbum(p)
    /\ "search_type" \in DOMAIN f <=> OwnFallbackAnswered(p)

\* thread p's queries were built from its own parameters
OwnQueries(p) ==
    LET r == threads[p].req
        c == threads[p].calls
        genre_term == IF OwnGenre(p) = {} THEN <<>>
                      ELSE <<[term |-> "track_genre", value |-> The(r.genre)]>>
        album_term == IF OwnAlbum(p) = {} THEN <<>>
                      ELSE <<[term |-> "album_name.keyword", value |-> The(r.album)]>>
    IN  /\ Len(c) >= 1 => c[1].query = [size |-> r.size,
                                        filter |-> genre_term \o album_term]
        /\ Len(c) >= 2 => /\ c[2].query.filter = genre_term
                          /\ c[2].query.must[1].query = The(r.album)

\* thread p's response is the one its own parameters and the answers to its
\* own calls give
OwnResponse(p) ==
    LET c == threads[p].calls
        last == c[Len(c)]
        out == threads[p].resp
    IN  IF last.fault THEN out.status = 500
        ELSE /\ out.status = 200
             /\ out.body.total_tracks = last.total
             /\ Len(out.body.results) = Min(10, Len(last.hits))
             /\ \A i \in DOMAIN out.body.results :
                   out.body.results[i].track_id = last.hits[i]._id
             /\ OwnFilters(p, out.body.filters)

\* C21: with requests in flight on several threads, no two of them hold the
\* same dict object, the dict a request holds has that request's values
\* only, the queries it sent were built from its parameters only, and its
\* response is determined by its own parameters and the answers to its own
\* calls.
C21_RequestsDoNotInterfere ==
    /\ \A p, q \in Threads :
          (p # q /\ InFlight(p) /\ InFlight(q)) =>
              threads[p].applied_filters # threads[q].applied_filters
    /\ \A p \in Threads :
          /\ InFlight(p) => OwnFilters(p, heap[threads[p].applied_filters])
          /\ OwnQueries(p)
          /\ threads[p].pc = "done" => OwnResponse(p)

C21_Witness ==
    /\ threads[1].pc = "done" /\ threads[2].pc = "done"
    /\ threads[1].req.genre = {"jazz"} /\ threads[2].req.genre = {}
    /\ Len(threads[1].calls) = 2 /\ threads[1].resp.status = 200
    /\ threads[1].resp.body.filters.search_type = "fuzzy_fallback"
    /\ Len(threads[2].calls) = 1 /\ threads[2].resp.status = 200
    /\ threads[2].resp.body.total_tracks = 1
    /\ "search_type" \notin DOMAIN threads[2].resp.body.filters

====
